---- MODULE Spec2Model ----
(***************************************************************************)
(* es-viewer (src/es_gui.py): the handwritten Elasticsearch client         *)
(* SimpleEsClient, the JSON-to-tree normalizer _populate_tree_model and    *)
(* the ElasticsearchViewer handlers that drive them.                       *)
(*                                                                         *)
(* Three specifications share the variables:                               *)
(*   SpecTree    populate_tree applied to bounded JSON values              *)
(*   SpecClient  the six client operations against one HTTP exchange       *)
(*   Spec        the viewer: field edits and the five button handlers      *)
(***************************************************************************)
EXTENDS Integers, Sequences, FiniteSets, TLC

VARIABLES
    host_input, port_input, index_input,      \* QLineEdit texts
    https_checkbox, verify_ssl_checkbox,      \* QCheckBox states
    auth_checkbox, user_input, pass_input,
    query_input, doc_id_input, doc_body_input,
    results_tree,                             \* rows under the invisible root
    status_bar, message_box,                  \* what the last step showed: status messages, dialogs
    config_file,                              \* content of CONFIG_FILE
    running,                                  \* FALSE once a slot died on an uncaught exception
    call,                                     \* the step that ran last, with its inputs
    wire,                                     \* the HTTP exchanges of that step: request and what came back
    result,                                   \* what the client returned or raised in that step
    shown                                     \* history: the value last given to populate_tree

vars == << host_input, port_input, index_input, https_checkbox,
           verify_ssl_checkbox, auth_checkbox, user_input, pass_input,
           query_input, doc_id_input, doc_body_input, results_tree,
           status_bar, message_box, config_file, running, call, wire,
           result, shown >>

\* ------------------------------------------------------------------ bounds
\* longest object / array of the enumerated JSON values
MaxLen == 2
\* deepest chain of single-child containers of the enumerated JSON values
MaxDepth == 2

\* ------------------------------------------------------------------ text
\* Python's None where a text or a value is optional
None == [none |-> TRUE]

RECURSIVE lstrip(_)
lstrip(s) == IF s # "" /\ Head(s) \in {" ", "\t", "\n"} THEN lstrip(Tail(s)) ELSE s

RECURSIVE rstrip(_)
rstrip(s) ==
    IF s # "" /\ SubSeq(s, Len(s), Len(s)) \in {" ", "\t", "\n"}
    THEN rstrip(SubSeq(s, 1, Len(s) - 1))
    ELSE s

\* the text as typed, untrimmed
strip_nothing(s) == s

\* str.strip()
strip(s) == rstrip(lstrip(s))

startswith(s, prefix) ==
    Len(s) >= Len(prefix) /\ SubSeq(s, 1, Len(prefix)) = prefix

endswith(s, suffix) ==
    Len(s) >= Len(suffix) /\ SubSeq(s, Len(s) - Len(suffix) + 1, Len(s)) = suffix

\* ------------------------------------------------------------------ JSON values
\* what json.loads / response.json() produce: None, bool, int, str, dict, list
JNull == [t |-> "null"]
JBool(b) == [t |-> "bool", b |-> b]
JNum(n) == [t |-> "num", n |-> n]
JStr(text) == [t |-> "str", text |-> text]
\* a dict keeps insertion order: a sequence of <<key, value>> with distinct keys
JObj(members) == [t |-> "obj", members |-> members]
JArr(elems) == [t |-> "arr", elems |-> elems]

is_dict(v) == v.t = "obj"
is_list(v) == v.t = "arr"

\* str(value) of a scalar
str(v) ==
    CASE v.t = "null" -> "None"
      [] v.t = "bool" -> (IF v.b THEN "True" ELSE "False")
      [] v.t = "num" -> ToString(v.n)
      [] v.t = "str" -> v.text

\* bool(value): Python truthiness
truthy(v) ==
    CASE v.t = "null" -> FALSE
      [] v.t = "bool" -> v.b
      [] v.t = "num" -> v.n # 0
      [] v.t = "str" -> v.text # ""
      [] v.t = "obj" -> v.members # <<>>
      [] v.t = "arr" -> v.elems # <<>>

\* dict.get(key, default) on a dict
dict_get(v, key, default) ==
    IF \E i \in 1..Len(v.members) : v.members[i][1] = key
    THEN v.members[CHOOSE i \in 1..Len(v.members) : v.members[i][1] = key][2]
    ELSE default

\* ------------------------------------------------------------------ JSON text
RECURSIVE spaces(_)
spaces(n) == IF n <= 0 THEN "" ELSE " " \o spaces(n - 1)

\* the line break json.dumps writes before an item at nesting `level`
\* (indent < 0 stands for indent=None: no line breaks)
newline_indent(indent, level) ==
    IF indent < 0 THEN "" ELSE "\n" \o spaces(indent * level)

RECURSIVE dumps(_, _, _, _, _), dumps_items(_, _, _, _, _, _)
\* json.dumps(v, separators=(item_sep, key_sep), indent=indent) at nesting `level`
dumps(v, item_sep, key_sep, indent, level) ==
    CASE v.t = "null" -> "null"
      [] v.t = "bool" -> (IF v.b THEN "true" ELSE "false")
      [] v.t = "num" -> ToString(v.n)
      [] v.t = "str" -> "\"" \o v.text \o "\""
      [] v.t = "obj" ->
            IF v.members = <<>> THEN "{}"
            ELSE "{" \o newline_indent(indent, level + 1)
                     \o dumps_items(v, 1, item_sep, key_sep, indent, level + 1)
                     \o newline_indent(indent, level) \o "}"
      [] v.t = "arr" ->
            IF v.elems = <<>> THEN "[]"
            ELSE "[" \o newline_indent(indent, level + 1)
                     \o dumps_items(v, 1, item_sep, key_sep, indent, level + 1)
                     \o newline_indent(indent, level) \o "]"

\* the items of container v from position i on, joined by the item separator
dumps_items(v, i, item_sep, key_sep, indent, level) ==
    LET n == IF is_dict(v) THEN Len(v.members) ELSE Len(v.elems)
        item == IF is_dict(v)
                THEN "\"" \o v.members[i][1] \o "\"" \o key_sep
                     \o dumps(v.members[i][2], item_sep, key_sep, indent, level)
                ELSE dumps(v.elems[i], item_sep, key_sep, indent, level)
    IN  IF i = n THEN item
        ELSE item \o item_sep \o newline_indent(indent, level)
                  \o dumps_items(v, i + 1, item_sep, key_sep, indent, level)

\* json.dumps(v): Python's default layout
json_dumps(v) == dumps(v, ", ", ": ", -1, 0)

\* json.dumps(v, indent=2)
json_dumps_indent2(v) == dumps(v, ",", ": ", 2, 0)

\* the compact layout Elasticsearch writes its bodies in
compact(v) == dumps(v, ",", ":", -1, 0)

\* ------------------------------------------------------------------ bounded JSON values
Scalars == {JNull, JBool(TRUE), JNum(10), JStr("")}

Keys == {"a", "[0]"}

\* containers nested inside the enumerated values
Nest == { JObj(<<>>), JArr(<<>>), JArr(<<JNum(10)>>),
          JObj(<< <<"[0]", JNum(10)>> >>) }

\* key sequences of length n without repetition
KeySeqs(n) ==
    { ks \in [1..n -> Keys] : \A i, j \in 1..n : i # j => ks[i] # ks[j] }

\* every array and object of at most MaxLen items drawn from S
Flat(S) ==
    UNION { { JArr(vs) : vs \in [1..n -> S] }
            \cup { JObj([i \in 1..n |-> <<ks[i], vs[i]>>]) :
                     ks \in KeySeqs(n), vs \in [1..n -> S] }
          : n \in 0..MaxLen }

RECURSIVE Chain(_)
\* the values of Nest under d single-child containers
Chain(d) ==
    IF d = 0 THEN Nest
    ELSE UNION { { JArr(<<x>>), JObj(<< <<"a", x>> >>) } : x \in Chain(d - 1) }

JsonValues ==
    Scalars \cup Flat(Scalars \cup Nest) \cup UNION { Chain(d) : d \in 1..MaxDepth }

\* ------------------------------------------------------------------ tree normalizer
\* a row of the QStandardItemModel: the key item's text, the value item's
\* text ("" for a QStandardItem() whose text was never set) and the rows
\* appended under the key item
Row(key, value, children) == [key |-> key, value |-> value, children |-> children]

\* the label of the i-th item (1-based position) in iteration order
row_label_from_one(data, i) ==
    IF is_dict(data) THEN data.members[i][1]
    ELSE "[" \o ToString(i) \o "]"

row_label(data, i) ==
    IF is_dict(data) THEN data.members[i][1]          \* str(key)
    ELSE "[" \o ToString(i - 1) \o "]"                \* f"[{index}]", enumerate from 0

RECURSIVE _populate_tree_model(_, _), append_rows(_, _, _)
\* _populate_tree_model(data, parent_item): the rows under parent_item afterwards
_populate_tree_model(data, parent_item) ==
    IF is_dict(data) \/ is_list(data)
    THEN append_rows(data, 1, parent_item)
    ELSE parent_item

\* the loop body of either branch, from the i-th item on
append_rows(data, i, parent_item) ==
    LET n == IF is_dict(data) THEN Len(data.members) ELSE Len(data.elems)
        value == IF is_dict(data) THEN data.members[i][2] ELSE data.elems[i]
        row == IF is_dict(value) \/ is_list(value)
               THEN Row(row_label(data, i), "", _populate_tree_model(value, <<>>))
               ELSE Row(row_label(data, i), str(value), <<>>)
    IN  IF i > n THEN parent_item
        ELSE append_rows(data, i + 1, Append(parent_item, row))

\* populate_tree, keeping the rows of the model it replaces
populate_tree_keeping_rows(tree, data) == _populate_tree_model(data, tree)

\* populate_tree(data): a new QStandardItemModel replaces `tree`; its
\* invisible root starts without rows
populate_tree(tree, data) == _populate_tree_model(data, <<>>)

\* ------------------------------------------------------------------ parsing
default_query ==
    JObj(<< <<"query", JObj(<< <<"match_all", JObj(<<>>)>> >>)>>,
            <<"size", JNum(10)>> >>)

default_update ==
    JObj(<< <<"doc", JObj(<< <<"field_name", JStr("new_value")>> >>)>> >>)

\* bodies an Elasticsearch node answers with
not_found == JObj(<< <<"error", JStr("not_found")>> >>)

found_doc ==
    JObj(<< <<"_id", JStr("7")>>, <<"found", JBool(TRUE)>>,
            <<"_source", JObj(<< <<"a", JNum(10)>> >>)>> >>)

search_hits ==
    JObj(<< <<"hits", JObj(<< <<"hits",
            JArr(<< JObj(<< <<"_id", JStr("a")>> >>),
                    JObj(<< <<"_id", JStr("b")>> >>) >>)>> >>)>> >>)

\* the values whose texts the parser knows
Parseable ==
    JsonValues \cup { default_query, default_update, not_found, found_doc,
                      search_hits, JObj(<< <<"a", JNum(10)>> >>) }

\* (text, value) for the three layouts a JSON text is written in here
ParseTable ==
    { <<compact(v), v>> : v \in Parseable }
    \cup { <<json_dumps(v), v>> : v \in Parseable }
    \cup { <<json_dumps_indent2(v), v>> : v \in Parseable }

\* the parser: text -> value, defined on the texts that are JSON
Parser ==
    [ text \in { p[1] : p \in ParseTable } |->
        (CHOOSE p \in ParseTable : p[1] = text)[2] ]

is_json(text) == text \in DOMAIN Parser

\* json.loads(text) / response.json() of a text that is JSON
json_loads(text) == Parser[text]

\* ------------------------------------------------------------------ exceptions
\* the classes an exception of each class is an instance of
mro(cls) ==
    CASE cls = "requests.HTTPError" ->
            {"requests.HTTPError", "requests.RequestException"}
      [] cls = "requests.SSLError" ->
            {"requests.SSLError", "requests.ConnectionError",
             "requests.RequestException"}
      [] cls = "requests.ConnectionError" ->
            {"requests.ConnectionError", "requests.RequestException"}
      [] cls = "requests.ConnectTimeout" ->
            {"requests.ConnectTimeout", "requests.ConnectionError",
             "requests.Timeout", "requests.RequestException"}
      [] cls = "requests.ReadTimeout" ->
            {"requests.ReadTimeout", "requests.Timeout",
             "requests.RequestException"}
      [] cls = "requests.JSONDecodeError" ->
            {"requests.JSONDecodeError", "requests.InvalidJSONError",
             "requests.RequestException", "json.JSONDecodeError", "ValueError"}
      [] cls = "json.JSONDecodeError" -> {"json.JSONDecodeError", "ValueError"}
      [] OTHER -> {cls}

isinstance(exc, cls) == cls \in mro(exc.cls)

Return(value) == [value |-> value, kind |-> "return"]
Raise(cls, message) == [cls |-> cls, kind |-> "raise", message |-> message]

\* ------------------------------------------------------------------ SimpleEsClient
\* requests.request(..., timeout=10, ...)
RequestTimeout == 10

\* SimpleEsClient.__init__
SimpleEsClient(base_url, auth, verify_ssl) ==
    [ base_url |-> IF endswith(base_url, "/")
                   THEN SubSeq(base_url, 1, Len(base_url) - 1)
                   ELSE base_url,
      auth |-> auth,
      verify_ssl |-> verify_ssl,
      headers |-> "Content-Type: application/json" ]

\* the body requests writes for json=value: none for json=None
NoBody == <<>>
json_kwarg(value) == IF value = JNull THEN NoBody ELSE <<json_dumps(value)>>

\* what the network gives back for one request
Response(status_code, reason, content) ==
    [ kind |-> "response", status_code |-> status_code, reason |-> reason,
      content |-> content ]
Failure(cls, detail) == [cls |-> cls, kind |-> "exception", detail |-> detail]

\* Response.raise_for_status(): TRUE when it raises HTTPError
raise_for_status_server_only(response) ==
    500 <= response.status_code /\ response.status_code < 600

raise_for_status(response) ==
    400 <= response.status_code /\ response.status_code < 600

\* the condition under which the acknowledgement replaces the body
is_empty_response_204_only(response) == response.status_code = 204

is_empty_response(response) ==
    response.status_code = 204 \/ response.content = ""

acknowledgement(response, method) ==
    JObj(<< <<"acknowledged", JBool(TRUE)>>,
            <<"status", JNum(response.status_code)>>,
            <<"operation", JStr(method)>> >>)

\* the try block: what it returns, or the exception that leaves it
try_block(method, outcome) ==
    IF outcome.kind = "exception"
    THEN [cls |-> outcome.cls, kind |-> "raise", message |-> outcome.detail,
          response |-> None]
    ELSE IF raise_for_status(outcome)
    THEN [cls |-> "requests.HTTPError", kind |-> "raise",
          message |-> ToString(outcome.status_code) \o " Error: " \o outcome.reason,
          response |-> outcome]
    ELSE IF is_empty_response(outcome)
    THEN Return(acknowledgement(outcome, method))
    ELSE IF is_json(outcome.content)
    THEN Return(json_loads(outcome.content))
    ELSE [cls |-> "requests.JSONDecodeError", kind |-> "raise",
          message |-> "Expecting value: line 1 column 1 (char 0)",
          response |-> None]

\* the except clauses, in the order Python tries them
ExceptClausesGenericFirst ==
    << "requests.HTTPError", "requests.RequestException", "requests.SSLError" >>

ExceptClauses ==
    << "requests.HTTPError", "requests.SSLError", "requests.RequestException" >>

\* the body of `except requests.exceptions.HTTPError`
http_error_details(response) ==
    "HTTP Error: " \o ToString(response.status_code) \o " " \o response.reason
    \o ( IF is_json(response.content)
         THEN "\nDetails: " \o json_dumps(json_loads(response.content))
         ELSE "\nResponse Body: " \o response.content )

\* what the first matching except clause raises; the exception itself when
\* no clause matches
except_clauses(exc) ==
    LET matching == { i \in 1..Len(ExceptClauses) : isinstance(exc, ExceptClauses[i]) }
        first == CHOOSE i \in matching : \A j \in matching : i <= j
    IN  IF matching = {} THEN Raise(exc.cls, exc.message)
        ELSE CASE ExceptClauses[first] = "requests.HTTPError" ->
                    Raise("SimpleEsClientError", http_error_details(exc.response))
               [] ExceptClauses[first] = "requests.SSLError" ->
                    Raise("SimpleEsClientError",
                          "SSL Error: Could not verify certificate. Try unchecking 'Verify SSL Certificate'.\nDetails: "
                          \o exc.message)
               [] ExceptClauses[first] = "requests.RequestException" ->
                    Raise("SimpleEsClientError", "Connection failed: " \o exc.message)

http_request(self, method, endpoint, body) ==
    [ auth |-> self.auth, headers |-> self.headers, method |-> method,
      body |-> body, url |-> self.base_url \o "/" \o endpoint,
      timeout |-> RequestTimeout, verify |-> self.verify_ssl ]

\* one request and what came back for it
exchange(self, method, endpoint, body, outcome) ==
    [ outcome |-> outcome, request |-> http_request(self, method, endpoint, body) ]

\* _make_request sending the request a second time when the first attempt
\* failed
_make_request_retrying(self, method, endpoint, body, outcome) ==
    IF try_block(method, outcome).kind = "return"
    THEN [ wire |-> << exchange(self, method, endpoint, body, outcome) >>,
           result |-> try_block(method, outcome) ]
    ELSE [ wire |-> << exchange(self, method, endpoint, body, outcome),
                       exchange(self, method, endpoint, body, outcome) >>,
           result |-> except_clauses(try_block(method, outcome)) ]

\* _make_request: the exchange it makes (the network answering `outcome`)
\* and what it returns or raises
_make_request(self, method, endpoint, body, outcome) ==
    [ wire |-> << exchange(self, method, endpoint, body, outcome) >>,
      result |-> IF try_block(method, outcome).kind = "return"
                 THEN try_block(method, outcome)
                 ELSE except_clauses(try_block(method, outcome)) ]

info(self, outcome) == _make_request(self, "GET", "", NoBody, outcome)

search(self, index, query, outcome) ==
    _make_request(self, "POST", index \o "/_search", json_kwarg(query), outcome)

get_document(self, index, doc_id, outcome) ==
    _make_request(self, "GET", index \o "/_doc/" \o doc_id, NoBody, outcome)

\* an optional doc_id: <<>> is None, <<s>> is the text s
NoId == <<>>
SomeId(s) == <<s>>

index_document_always_post(self, index, document, doc_id, outcome) ==
    _make_request(self, "POST", index \o "/_doc", json_kwarg(document), outcome)

index_document(self, index, document, doc_id, outcome) ==
    IF doc_id # NoId /\ doc_id[1] # ""
    THEN _make_request(self, "PUT", index \o "/_doc/" \o doc_id[1],
                       json_kwarg(document), outcome)
    ELSE _make_request(self, "POST", index \o "/_doc", json_kwarg(document), outcome)

update_document(self, index, doc_id, payload, outcome) ==
    _make_request(self, "POST", index \o "/_update/" \o doc_id,
                  json_kwarg(payload), outcome)

delete_document(self, index, doc_id, outcome) ==
    _make_request(self, "DELETE", index \o "/_doc/" \o doc_id, NoBody, outcome)

\* ------------------------------------------------------------------ the network
Statuses == {200, 204, 304, 401, 404}

reason_phrase(status_code) ==
    CASE status_code = 200 -> "OK"
      [] status_code = 204 -> "No Content"
      [] status_code = 304 -> "Not Modified"
      [] status_code = 401 -> "Unauthorized"
      [] status_code = 404 -> "Not Found"

\* response bodies: none, a proxy's HTML page, JSON
Contents == {"", "<html>", compact(not_found)}

Responses(contents) ==
    { Response(st, reason_phrase(st), c) : st \in Statuses, c \in contents }

\* what can come back for a request to url: TLS failures need an https URL
Outcomes(url, contents) ==
    Responses(contents)
    \cup { Failure("requests.ConnectionError", "Name or service not known"),
           Failure("requests.ConnectionError", "Connection refused"),
           Failure("requests.ConnectTimeout", "connect timeout=10"),
           Failure("requests.ReadTimeout", "read timeout=10") }
    \cup ( IF startswith(url, "https://")
           THEN { Failure("requests.SSLError", "CERTIFICATE_VERIFY_FAILED") }
           ELSE {} )

\* ------------------------------------------------------------------ initial state
gui_vars == << host_input, port_input, index_input, https_checkbox,
               verify_ssl_checkbox, auth_checkbox, user_input, pass_input,
               query_input, doc_id_input, doc_body_input, status_bar,
               message_box, config_file, running >>

\* ElasticsearchViewer.__init__: init_ui, then load_settings without a
\* configuration file
Init ==
    /\ host_input = "localhost"
    /\ port_input = "9200"
    /\ index_input = "my-index"
    /\ https_checkbox = FALSE
    /\ verify_ssl_checkbox = TRUE
    /\ auth_checkbox = FALSE
    /\ user_input = ""
    /\ pass_input = ""
    /\ query_input = json_dumps_indent2(default_query)
    /\ doc_id_input = ""
    /\ doc_body_input = json_dumps_indent2(default_update)
    /\ results_tree = <<>>
    /\ status_bar = <<>>
    /\ message_box = <<>>
    /\ config_file = None
    /\ running = TRUE
    /\ call = [op |-> "__init__"]
    /\ wire = <<>>
    /\ result = None
    /\ shown = None

\* ------------------------------------------------------------------ SpecTree
\* the values populate_tree is given: the enumerated ones and the bodies an
\* Elasticsearch node answers with
TreeInputs == JsonValues \cup { search_hits, found_doc, not_found }

\* populate_tree(data)
PopulateTree ==
    \E data \in TreeInputs :
        /\ results_tree' = populate_tree(results_tree, data)
        /\ shown' = data
        /\ call' = [op |-> "populate_tree"]
        /\ UNCHANGED << gui_vars, wire, result >>

NextTree == PopulateTree

SpecTree == Init /\ [][NextTree]_vars

\* ------------------------------------------------------------------ SpecClient
Clients ==
    { SimpleEsClient("http://localhost:9200", None, TRUE),
      SimpleEsClient("https://localhost:9200/",
                     [username |-> "elastic", password |-> "changeme"], TRUE) }

Indices == {"logs"}
DocIds == {"42", ""}
Documents == {default_update, JNull}

Info ==
    \E self \in Clients : \E outcome \in Outcomes(self.base_url, Contents) :
        LET done == info(self, outcome)
        IN  /\ call' = [self |-> self, op |-> "info"]
            /\ wire' = done.wire
            /\ result' = done.result
            /\ UNCHANGED << gui_vars, results_tree, shown >>

Search ==
    \E self \in Clients, index \in Indices, query \in Documents :
      \E outcome \in Outcomes(self.base_url, Contents) :
        LET done == search(self, index, query, outcome)
        IN  /\ call' = [self |-> self, body |-> query, index |-> index,
                        op |-> "search"]
            /\ wire' = done.wire
            /\ result' = done.result
            /\ UNCHANGED << gui_vars, results_tree, shown >>

GetDocument ==
    \E self \in Clients, index \in Indices, doc_id \in DocIds :
      \E outcome \in Outcomes(self.base_url, Contents) :
        LET done == get_document(self, index, doc_id, outcome)
        IN  /\ call' = [self |-> self, index |-> index,
                        doc_id |-> SomeId(doc_id), op |-> "get_document"]
            /\ wire' = done.wire
            /\ result' = done.result
            /\ UNCHANGED << gui_vars, results_tree, shown >>

IndexDocument ==
    \E self \in Clients, index \in Indices, document \in Documents,
       doc_id \in {NoId} \cup {SomeId(d) : d \in DocIds} :
      \E outcome \in Outcomes(self.base_url, Contents) :
        LET done == index_document(self, index, document, doc_id, outcome)
        IN  /\ call' = [self |-> self, body |-> document, index |-> index,
                        doc_id |-> doc_id, op |-> "index_document"]
            /\ wire' = done.wire
            /\ result' = done.result
            /\ UNCHANGED << gui_vars, results_tree, shown >>

UpdateDocument ==
    \E self \in Clients, index \in Indices, doc_id \in DocIds,
       payload \in Documents :
      \E outcome \in Outcomes(self.base_url, Contents) :
        LET done == update_document(self, index, doc_id, payload, outcome)
        IN  /\ call' = [self |-> self, body |-> payload, index |-> index,
                        doc_id |-> SomeId(doc_id), op |-> "update_document"]
            /\ wire' = done.wire
            /\ result' = done.result
            /\ UNCHANGED << gui_vars, results_tree, shown >>

DeleteDocument ==
    \E self \in Clients, index \in Indices, doc_id \in DocIds :
      \E outcome \in Outcomes(self.base_url, Contents) :
        LET done == delete_document(self, index, doc_id, outcome)
        IN  /\ call' = [self |-> self, index |-> index,
                        doc_id |-> SomeId(doc_id), op |-> "delete_document"]
            /\ wire' = done.wire
            /\ result' = done.result
            /\ UNCHANGED << gui_vars, results_tree, shown >>

NextClient ==
    \/ Info
    \/ Search
    \/ GetDocument
    \/ IndexDocument
    \/ UpdateDocument
    \/ DeleteDocument

SpecClient == Init /\ [][NextClient]_vars

\* ------------------------------------------------------------------ ElasticsearchViewer
inputs == << host_input, port_input, index_input, https_checkbox,
             verify_ssl_checkbox, auth_checkbox, user_input, pass_input,
             query_input, doc_id_input, doc_body_input >>

\* a QMessageBox the user is shown
MessageBox(icon, title, text) == [text |-> text, icon |-> icon, title |-> title]

\* str(e) of the json.JSONDecodeError json.loads raises for a text that is
\* not JSON
JSONDecodeError(text) ==
    IF text # "" /\ Head(text) = "{"
    THEN "Expecting property name enclosed in double quotes: line 1 column 2 (char 1)"
    ELSE "Expecting value: line 1 column 1 (char 0)"

\* _get_client: the client, or None after its warning
_get_client ==
    LET host == strip(host_input)
        port == strip(port_input)
    IN  IF host = "" \/ port = "" THEN None
        ELSE SimpleEsClient(
                 (IF https_checkbox THEN "https" ELSE "http") \o "://" \o host \o ":" \o port,
                 IF auth_checkbox
                 THEN [username |-> user_input, password |-> pass_input]
                 ELSE None,
                 verify_ssl_checkbox)

\* the dialogs _get_client shows
_get_client_warning ==
    IF _get_client = None
    THEN << MessageBox("warning", "Input Error", "Host and Port cannot be empty.") >>
    ELSE <<>>

\* save_settings: the content of CONFIG_FILE afterwards; an IOError on
\* writing is swallowed
save_settings(written) ==
    IF written
    THEN [ verify_ssl |-> verify_ssl_checkbox, index |-> index_input,
           query |-> query_input, username |-> user_input,
           password |-> pass_input, host |-> host_input, port |-> port_input,
           https_enabled |-> https_checkbox, auth_enabled |-> auth_checkbox ]
    ELSE config_file

\* a handler returns before any request: only dialogs were shown
no_request(dialogs) ==
    /\ message_box' = dialogs
    /\ status_bar' = <<>>
    /\ wire' = <<>>
    /\ result' = None
    /\ UNCHANGED << inputs, results_tree, shown, config_file, running >>

\* except SimpleEsClientError (every exception _make_request lets out is
\* one): the critical dialog, after the dialogs and the status message shown
\* before the request
client_error(done, dialogs, status) ==
    /\ wire' = done.wire
    /\ result' = done.result
    /\ status_bar' = << status >>
    /\ message_box' =
          dialogs \o << MessageBox("critical", "Client Error", done.result.message) >>
    /\ UNCHANGED << inputs, results_tree, shown, config_file, running >>

\* what comes back to the viewer's requests: a document, a JSON array, an
\* Elasticsearch error, no connection, a TLS failure
ViewerOutcomes(url) ==
    { Response(200, reason_phrase(200), compact(found_doc)),
      Response(200, reason_phrase(200), compact(JArr(<<JNum(10)>>))),
      Response(404, reason_phrase(404), compact(not_found)),
      Failure("requests.ConnectionError", "Connection refused") }
    \cup ( IF startswith(url, "https://")
           THEN { Failure("requests.SSLError", "CERTIFICATE_VERIFY_FAILED") }
           ELSE {} )

execute_search ==
    /\ running
    /\ call' = [op |-> "execute_search"]
    /\ LET client == _get_client
           index_name == strip(index_input)
       IN  IF client = None \/ index_name = ""
           THEN no_request(_get_client_warning \o
                    << MessageBox("warning", "Input Error",
                                  "Host, Port, and Index are required.") >>)
           ELSE IF ~is_json(query_input)
           THEN no_request(<< MessageBox("critical", "JSON Error",
                                "Invalid JSON in query box:\n"
                                \o JSONDecodeError(query_input)) >>)
           ELSE \E outcome \in ViewerOutcomes(client.base_url), written \in BOOLEAN :
                  LET done == search(client, index_name, json_loads(query_input), outcome)
                      status == "Executing search on index \"" \o index_name \o "\"..."
                  IN  IF done.result.kind = "raise"
                      THEN client_error(done, <<>>, status)
                      ELSE /\ wire' = done.wire
                           /\ result' = done.result
                           /\ results_tree' = populate_tree(results_tree, done.result.value)
                           /\ shown' = done.result.value
                           /\ status_bar' = << status, "Search successful. Settings saved." >>
                           /\ message_box' = <<>>
                           /\ config_file' = save_settings(written)
                           /\ UNCHANGED << inputs, running >>

execute_get ==
    /\ running
    /\ call' = [op |-> "execute_get"]
    /\ LET client == _get_client
           index == strip(index_input)
           doc_id == strip(doc_id_input)
       IN  IF client = None \/ index = "" \/ doc_id = ""
           THEN no_request(_get_client_warning \o
                    << MessageBox("warning", "Input Error",
                                  "Host, Port, Index and Document ID are required.") >>)
           ELSE \E outcome \in ViewerOutcomes(client.base_url) :
                  LET done == get_document(client, index, doc_id, outcome)
                      status == "Getting document '" \o doc_id \o "'..."
                  IN  IF done.result.kind = "raise"
                      THEN client_error(done, <<>>, status)
                      ELSE /\ wire' = done.wire
                           /\ result' = done.result
                           /\ results_tree' = populate_tree(results_tree, done.result.value)
                           /\ shown' = done.result.value
                           /\ message_box' = <<>>
                           /\ IF is_dict(done.result.value)
                              THEN /\ doc_body_input' = json_dumps_indent2(
                                          dict_get(done.result.value, "_source", JObj(<<>>)))
                                   /\ status_bar' =
                                          << status, "Get document '" \o doc_id \o "' successful." >>
                                   /\ UNCHANGED running
                              ELSE \* response.get: AttributeError, caught nowhere
                                   /\ running' = FALSE
                                   /\ status_bar' = << status >>
                                   /\ UNCHANGED doc_body_input
                           /\ UNCHANGED << host_input, port_input, index_input,
                                           https_checkbox, verify_ssl_checkbox,
                                           auth_checkbox, user_input, pass_input,
                                           query_input, doc_id_input, config_file >>

execute_index ==
    /\ running
    /\ call' = [op |-> "execute_index"]
    /\ LET client == _get_client
           index == strip(index_input)
           doc_id == IF strip(doc_id_input) = "" THEN NoId
                     ELSE SomeId(strip(doc_id_input))
       IN  IF client = None \/ index = ""
           THEN no_request(_get_client_warning \o
                    << MessageBox("warning", "Input Error",
                                  "Host, Port, and Index are required.") >>)
           ELSE IF ~is_json(doc_body_input)
           THEN no_request(<< MessageBox("critical", "JSON Error",
                                "Invalid JSON in document body:\n"
                                \o JSONDecodeError(doc_body_input)) >>)
           ELSE \E outcome \in ViewerOutcomes(client.base_url) :
                  LET done == index_document(client, index, json_loads(doc_body_input),
                                             doc_id, outcome)
                      status == "Indexing document in '" \o index \o "'..."
                      _id == IF is_dict(done.result.value)
                             THEN dict_get(done.result.value, "_id", JNull)
                             ELSE JNull
                  IN  IF done.result.kind = "raise"
                      THEN client_error(done, <<>>, status)
                      ELSE /\ wire' = done.wire
                           /\ result' = done.result
                           /\ results_tree' = populate_tree(results_tree, done.result.value)
                           /\ shown' = done.result.value
                           /\ message_box' = <<>>
                           /\ IF ~is_dict(done.result.value)
                              THEN \* response.get: AttributeError, caught nowhere
                                   /\ running' = FALSE
                                   /\ status_bar' = << status >>
                                   /\ UNCHANGED doc_id_input
                              ELSE IF truthy(_id) /\ _id.t # "str"
                              THEN \* setText of a value that is no str: TypeError
                                   /\ running' = FALSE
                                   /\ status_bar' = << status >>
                                   /\ UNCHANGED doc_id_input
                              ELSE /\ doc_id_input' =
                                          IF truthy(_id) THEN _id.text ELSE doc_id_input
                                   /\ status_bar' = << status, "Index operation successful." >>
                                   /\ UNCHANGED running
                           /\ UNCHANGED << host_input, port_input, index_input,
                                           https_checkbox, verify_ssl_checkbox,
                                           auth_checkbox, user_input, pass_input,
                                           query_input, doc_body_input, config_file >>

execute_update ==
    /\ running
    /\ call' = [op |-> "execute_update"]
    /\ LET client == _get_client
           index == strip(index_input)
           doc_id == strip(doc_id_input)
       IN  IF client = None \/ index = "" \/ doc_id = ""
           THEN no_request(_get_client_warning \o
                    << MessageBox("warning", "Input Error",
                                  "Host, Port, Index and Document ID are required.") >>)
           ELSE IF ~is_json(doc_body_input)
           THEN no_request(<< MessageBox("critical", "JSON Error",
                                "Invalid JSON in update payload:\n"
                                \o JSONDecodeError(doc_body_input)) >>)
           ELSE \E outcome \in ViewerOutcomes(client.base_url) :
                  LET done == update_document(client, index, doc_id,
                                              json_loads(doc_body_input), outcome)
                      status == "Updating document '" \o doc_id \o "'..."
                  IN  IF done.result.kind = "raise"
                      THEN client_error(done, <<>>, status)
                      ELSE /\ wire' = done.wire
                           /\ result' = done.result
                           /\ results_tree' = populate_tree(results_tree, done.result.value)
                           /\ shown' = done.result.value
                           /\ status_bar' = << status, "Update operation successful." >>
                           /\ message_box' = <<>>
                           /\ UNCHANGED << inputs, config_file, running >>

execute_delete ==
    /\ running
    /\ LET client == _get_client
           index == strip(index_input)
           doc_id == strip(doc_id_input)
           question == MessageBox("question", "Confirm Delete",
                           "Are you sure you want to delete document '" \o doc_id
                           \o "' from index '" \o index \o "'?")
       IN  IF client = None \/ index = "" \/ doc_id = ""
           THEN /\ call' = [op |-> "execute_delete"]
                /\ no_request(_get_client_warning \o
                       << MessageBox("warning", "Input Error",
                                     "Host, Port, Index and Document ID are required.") >>)
           ELSE \E confirm \in {"Yes", "No"} :
                  /\ call' = [op |-> "execute_delete", confirm |-> confirm]
                  /\ IF confirm = "No"
                     THEN no_request(<< question >>)
                     ELSE \E outcome \in ViewerOutcomes(client.base_url) :
                            LET done == delete_document(client, index, doc_id, outcome)
                                status == "Deleting document '" \o doc_id \o "'..."
                            IN  IF done.result.kind = "raise"
                                THEN client_error(done, << question >>, status)
                                ELSE /\ wire' = done.wire
                                     /\ result' = done.result
                                     /\ results_tree' =
                                            populate_tree(results_tree, done.result.value)
                                     /\ shown' = done.result.value
                                     /\ status_bar' =
                                            << status, "Delete operation successful." >>
                                     /\ message_box' = << question >>
                                     /\ doc_id_input' = ""
                                     /\ doc_body_input' = ""
                                     /\ UNCHANGED << host_input, port_input, index_input,
                                                     https_checkbox, verify_ssl_checkbox,
                                                     auth_checkbox, user_input, pass_input,
                                                     query_input, config_file, running >>

\* ------------------------------------------------------------------ the user
\* texts the user types
HostTexts == {"localhost", " "}
PortTexts == {"9200", ""}
IndexTexts == {"my-index", " "}
QueryTexts == {json_dumps_indent2(default_query), "{bad"}
DocIdTexts == {" 42 ", ""}
DocBodyTexts == {json_dumps_indent2(default_update), "{bad"}

\* typing and ticking send no request and show nothing
typed ==
    /\ call' = [op |-> "edit"]
    /\ wire' = <<>>
    /\ result' = None
    /\ status_bar' = <<>>
    /\ message_box' = <<>>
    /\ UNCHANGED << verify_ssl_checkbox, auth_checkbox,
                    user_input, pass_input, results_tree, shown, config_file,
                    running >>

EditHost ==
    /\ running
    /\ \E text \in HostTexts : host_input' = text
    /\ typed
    /\ UNCHANGED << https_checkbox, port_input, index_input, query_input,
                    doc_id_input, doc_body_input >>

EditPort ==
    /\ running
    /\ \E text \in PortTexts : port_input' = text
    /\ typed
    /\ UNCHANGED << https_checkbox, host_input, index_input, query_input,
                    doc_id_input, doc_body_input >>

EditIndex ==
    /\ running
    /\ \E text \in IndexTexts : index_input' = text
    /\ typed
    /\ UNCHANGED << https_checkbox, host_input, port_input, query_input,
                    doc_id_input, doc_body_input >>

EditQuery ==
    /\ running
    /\ \E text \in QueryTexts : query_input' = text
    /\ typed
    /\ UNCHANGED << https_checkbox, host_input, port_input, index_input,
                    doc_id_input, doc_body_input >>

EditDocId ==
    /\ running
    /\ \E text \in DocIdTexts : doc_id_input' = text
    /\ typed
    /\ UNCHANGED << https_checkbox, host_input, port_input, index_input,
                    query_input, doc_body_input >>

EditDocBody ==
    /\ running
    /\ \E text \in DocBodyTexts : doc_body_input' = text
    /\ typed
    /\ UNCHANGED << https_checkbox, host_input, port_input, index_input,
                    query_input, doc_id_input >>

\* the user ticks or unticks 'Use HTTPS'; toggle_ssl_verify_option only shows
\* or hides the verify checkbox
ToggleHttps ==
    /\ running
    /\ https_checkbox' = ~https_checkbox
    /\ typed
    /\ UNCHANGED << host_input, port_input, index_input, query_input,
                    doc_id_input, doc_body_input >>

Next ==
    \/ ToggleHttps
    \/ EditHost
    \/ EditPort
    \/ EditIndex
    \/ EditQuery
    \/ EditDocId
    \/ EditDocBody
    \/ execute_search
    \/ execute_get
    \/ execute_index
    \/ execute_update
    \/ execute_delete

Spec == Init /\ [][Next]_vars

\* ================================================================== claims
ClientOps ==
    { "info", "search", "get_document", "index_document", "update_document",
      "delete_document" }

\* a client operation ran last
ClientRan == call.op \in ClientOps

\* the request and the answer of the first exchange of the last operation
Request == wire[1].request
Answer == wire[1].outcome
Answered == ClientRan /\ Len(wire) >= 1 /\ Answer.kind = "response"

\* the three messages a SimpleEsClientError is raised with
variant(message) ==
    IF startswith(message, "HTTP Error: ") THEN "http"
    ELSE IF startswith(message, "SSL Error: ") THEN "tls"
    ELSE IF startswith(message, "Connection failed: ") THEN "connection"
    ELSE "other"

RaisedVariant ==
    IF result.kind = "raise" /\ result.cls = "SimpleEsClientError"
    THEN variant(result.message)
    ELSE "other"

\* ------------------------------------------------------------------ C1
\* C1 as stated: index_document PUTs to {base}/{index}/_doc/{id} whenever an
\* id is given (any string, the empty one included) and POSTs to
\* {base}/{index}/_doc when none is given.
C1_GivenIdPuts ==
    call.op = "index_document" =>
        \A i \in 1..Len(wire) :
            IF call.doc_id # NoId
            THEN /\ wire[i].request.method = "PUT"
                 /\ wire[i].request.url =
                        call.self.base_url \o "/" \o call.index \o "/_doc/" \o call.doc_id[1]
            ELSE /\ wire[i].request.method = "POST"
                 /\ wire[i].request.url =
                        call.self.base_url \o "/" \o call.index \o "/_doc"

\* C1 amended: index_document PUTs to {base}/{index}/_doc/{id} when a
\* non-empty id is given and POSTs to {base}/{index}/_doc when the id is
\* absent or empty; it issues a request, and no other method or path.
C1_IndexDocumentRequest ==
    call.op = "index_document" =>
        /\ Len(wire) >= 1
        /\ \A i \in 1..Len(wire) :
            IF call.doc_id # NoId /\ call.doc_id[1] # ""
            THEN /\ wire[i].request.method = "PUT"
                 /\ wire[i].request.url =
                        call.self.base_url \o "/" \o call.index \o "/_doc/" \o call.doc_id[1]
            ELSE /\ wire[i].request.method = "POST"
                 /\ wire[i].request.url =
                        call.self.base_url \o "/" \o call.index \o "/_doc"

\* index_document ran with the id "42" and a PUT went out
C1_Witness ==
    /\ call.op = "index_document"
    /\ call.doc_id = SomeId("42")
    /\ Request.method = "PUT"
    /\ Request.url = "https://localhost:9200/logs/_doc/42"

\* ------------------------------------------------------------------ C2
IsAcknowledgement(value, status_code, method) ==
    /\ is_dict(value)
    /\ Len(value.members) = 3
    /\ dict_get(value, "acknowledged", None) = JBool(TRUE)
    /\ dict_get(value, "status", None) = JNum(status_code)
    /\ dict_get(value, "operation", None) = JStr(method)

\* C2 as stated: whatever the status, a 204 or an empty body yields the
\* acknowledgement object.
C2_AnyEmptyAcknowledged ==
    Answered /\ (Answer.status_code = 204 \/ Answer.content = "") =>
        /\ result.kind = "return"
        /\ IsAcknowledgement(result.value, Answer.status_code, Request.method)

\* C2 amended: a response that is not an HTTP error (status outside 400-599)
\* and has status 204 or an empty body yields {acknowledged: true, status:
\* <its status code>, operation: <the method issued>}.
C2_EmptySuccessAcknowledged ==
    ( /\ Answered
      /\ ~(400 <= Answer.status_code /\ Answer.status_code < 600)
      /\ (Answer.status_code = 204 \/ Answer.content = "") ) =>
        /\ result.kind = "return"
        /\ IsAcknowledgement(result.value, Answer.status_code, Request.method)

\* a DELETE answered 200 with an empty body returned the acknowledgement
C2_Witness ==
    /\ Answered
    /\ call.op = "delete_document"
    /\ Answer.status_code = 200
    /\ Answer.content = ""
    /\ result.kind = "return"
    /\ dict_get(result.value, "operation", None) = JStr("DELETE")

\* ------------------------------------------------------------------ C3
CarriesHttpError(message, response) ==
    /\ startswith(message, "HTTP Error: " \o ToString(response.status_code)
                           \o " " \o response.reason \o "\n")
    /\ IF is_json(response.content)
       THEN endswith(message, "\nDetails: " \o json_dumps(json_loads(response.content)))
       ELSE endswith(message, "\nResponse Body: " \o response.content)

\* C3 as stated: every status outside 200-299 raises an error carrying the
\* status code, the reason phrase and the decoded body (the raw text when
\* the body is not JSON).
C3_Non2xxRaises ==
    Answered /\ ~(200 <= Answer.status_code /\ Answer.status_code <= 299) =>
        /\ result.kind = "raise"
        /\ result.cls = "SimpleEsClientError"
        /\ CarriesHttpError(result.message, Answer)

\* C3 amended: every status in 400-599 raises an error and returns no
\* value; the error carries the status code, the reason phrase and the
\* JSON-decoded body, or the raw text when the body is not JSON.
C3_ErrorStatusRaises ==
    Answered /\ 400 <= Answer.status_code /\ Answer.status_code < 600 =>
        /\ result.kind = "raise"
        /\ result.cls = "SimpleEsClientError"
        /\ CarriesHttpError(result.message, Answer)

\* a 404 with the body {"error":"not_found"} raised the decoded payload
C3_Witness ==
    /\ Answered
    /\ Answer.status_code = 404
    /\ Answer.content = "{\"error\":\"not_found\"}"
    /\ result.kind = "raise"
    /\ result.message = "HTTP Error: 404 Not Found\nDetails: {\"error\": \"not_found\"}"

\* ------------------------------------------------------------------ C4
\* C4: a TLS failure raises the variant that suggests the verify-SSL
\* toggle, never the connection-failure one; DNS failure, refused
\* connection and timeout raise the connection-failure variant, never the
\* TLS one.
C4_TlsDistinctFromConnection ==
    ClientRan /\ Len(wire) >= 1 /\ Answer.kind = "exception" =>
        IF Answer.cls = "requests.SSLError"
        THEN RaisedVariant = "tls"
        ELSE RaisedVariant = "connection"

\* a TLS failure was raised as the TLS variant
C4_Witness ==
    /\ ClientRan
    /\ Len(wire) >= 1
    /\ Answer.kind = "exception"
    /\ Answer.cls = "requests.SSLError"
    /\ RaisedVariant = "tls"

\* ------------------------------------------------------------------ C5
\* C5 as stated: a 2xx response with a non-empty body that is not JSON
\* fails with an error that is none of the connection-failure, TLS and
\* HTTP-status variants, and returns nothing.
C5_MalformedJsonDistinct ==
    ( /\ Answered
      /\ 200 <= Answer.status_code /\ Answer.status_code <= 299
      /\ Answer.content # ""
      /\ ~is_json(Answer.content) ) =>
        /\ result.kind = "raise"
        /\ RaisedVariant \notin {"connection", "tls", "http"}

\* ------------------------------------------------------------------ C6
FailedExchange(outcome) ==
    \/ outcome.kind = "exception"
    \/ /\ outcome.kind = "response"
       /\ 400 <= outcome.status_code /\ outcome.status_code < 600

RECURSIVE LabelsInOrder(_, _)
\* the rows under a container are labelled, one for one and in order, with
\* its keys or with [0], [1], ...; so are the rows under every container
\* nested in it
LabelsInOrder(v, rows) ==
    IF is_dict(v)
    THEN /\ Len(rows) = Len(v.members)
         /\ \A i \in 1..Len(rows) :
                /\ rows[i].key = v.members[i][1]
                /\ LabelsInOrder(v.members[i][2], rows[i].children)
    ELSE IF is_list(v)
    THEN /\ Len(rows) = Len(v.elems)
         /\ \A i \in 1..Len(rows) :
                /\ rows[i].key = "[" \o ToString(i - 1) \o "]"
                /\ LabelsInOrder(v.elems[i], rows[i].children)
    ELSE TRUE

\* C7: for every object or array at any depth, the row labels under it are
\* its keys in insertion order, or [0], [1], ..., [n-1] for an array of
\* length n, in order, nothing added and nothing dropped.
C7_LabelsInOrder == shown # None => LabelsInOrder(shown, results_tree)

\* the search response {"hits":{"hits":[{"_id":"a"},{"_id":"b"}]}} was
\* normalized: hits > hits > [0], [1], each with an _id leaf
C7_Witness ==
    /\ shown = search_hits
    /\ Len(results_tree) = 1
    /\ results_tree[1].key = "hits"
    /\ results_tree[1].children[1].key = "hits"
    /\ Len(results_tree[1].children[1].children) = 2
    /\ results_tree[1].children[1].children[1].key = "[0]"
    /\ results_tree[1].children[1].children[2].key = "[1]"
    /\ results_tree[1].children[1].children[2].children[1] = Row("_id", "b", <<>>)

\* ------------------------------------------------------------------ C8
RECURSIVE SameShape(_, _)
\* v and w agree in shape, keys, order, nesting and scalar string forms
SameShape(v, w) ==
    IF is_dict(v)
    THEN /\ is_dict(w)
         /\ Len(w.members) = Len(v.members)
         /\ \A i \in 1..Len(v.members) :
                /\ w.members[i][1] = v.members[i][1]
                /\ SameShape(v.members[i][2], w.members[i][2])
    ELSE IF is_list(v)
    THEN /\ is_list(w)
         /\ Len(w.elems) = Len(v.elems)
         /\ \A i \in 1..Len(v.elems) : SameShape(v.elems[i], w.elems[i])
    ELSE ~is_dict(w) /\ ~is_list(w) /\ str(w) = str(v)

\* C8 as stated: a value that differs from the normalized one in shape,
\* keys, order, nesting or a scalar's string form never normalizes to the
\* same row tree.
C8_ShapeReconstructible ==
    shown # None =>
        \A v \in TreeInputs :
            ~SameShape(v, shown) => populate_tree(<<>>, v) # results_tree

\* ------------------------------------------------------------------ C9
\* C9 as stated: a scalar at the root yields one leaf row carrying the
\* scalar's string form, not an empty tree.
C9_RootScalarRow ==
    shown # None /\ ~is_dict(shown) /\ ~is_list(shown) =>
        /\ Len(results_tree) = 1
        /\ results_tree[1].value = str(shown)
        /\ results_tree[1].children = <<>>

\* ------------------------------------------------------------------ C10
\* the client returned a response in the last step
Succeeded == result # None /\ result.kind = "return"

\* C10: a step in which an operation succeeds leaves the tree equal to the
\* normalization of that operation's response alone, with no row of the
\* tree it replaces; every other step (input error, JSON error, client
\* error, declined delete, typing) leaves the tree as it was. So after any
\* sequence of steps the tree is the normalization of the most recent
\* successful response.
C10_TreeIsLastSuccess ==
    [][ IF Succeeded'
        THEN results_tree' = _populate_tree_model(result'.value, <<>>)
        ELSE results_tree' = results_tree ]_vars

\* an update answered with the array [10] after an earlier successful
\* search (its settings were saved): the tree holds the row [0] alone
C10_Witness ==
    /\ call.op = "execute_update"
    /\ Succeeded
    /\ result.value = JArr(<<JNum(10)>>)
    /\ config_file # None
    /\ results_tree = << Row("[0]", "10", <<>>) >>

\* ------------------------------------------------------------------ C11
\* nothing but white space, the empty text included
Blank(text) == \A i \in 1..Len(text) : SubSeq(text, i, i) \in {" ", "\t", "\n"}

\* the preconditions of handler op, read from the fields as they are when
\* the button is pressed
Preconditions(op) ==
    /\ ~Blank(host_input) /\ ~Blank(port_input) /\ ~Blank(index_input)
    /\ op \in {"execute_get", "execute_update", "execute_delete"}
          => ~Blank(doc_id_input)
    /\ op = "execute_search" => is_json(query_input)
    /\ op \in {"execute_index", "execute_update"} => is_json(doc_body_input)

\* C11: a step sends an HTTP request only if it is one of the five handlers,
\* host, port and index were non-empty after trimming, the document ID was
\* non-empty after trimming for get, update and delete, the body text parsed
\* as JSON for search (query box), index and update (document body), and
\* for delete the user answered Yes; when any of these fails no request is
\* sent.
C11_RequestOnlyWhenPreconditions ==
    [][ wire' # <<>> =>
            /\ call'.op \in {"execute_search", "execute_get", "execute_index",
                             "execute_update", "execute_delete"}
            /\ Preconditions(call'.op)
            /\ call'.op = "execute_delete" => call'.confirm = "Yes" ]_vars

\* the user answered No to the delete confirmation with every field filled
\* in: no request went out
C11_Witness ==
    /\ call = [op |-> "execute_delete", confirm |-> "No"]
    /\ wire = <<>>
    /\ ~Blank(host_input) /\ ~Blank(port_input) /\ ~Blank(index_input)
    /\ ~Blank(doc_id_input)

====
